---- MODULE Spec2Model ----
(***************************************************************************)
(* tiny_forth (src/src/main.rs): a single-pass parser/assembler for a      *)
(* Forth-like syntax (Parser::parse, Parser::finalize) and the stack       *)
(* virtual machine that runs its output (VM::new, VM::run).                *)
(*                                                                         *)
(* Conventions.                                                            *)
(*  - A vector is a sequence; index i of the source is index i+1 here.     *)
(*    ip, the return addresses and the dictionary addresses keep the       *)
(*    source's 0-based values.                                             *)
(*  - ip is a usize.  It is represented by the isize reading of the same   *)
(*    bits, so `(ip as isize + offset) as usize` is ip + offset and the    *)
(*    unsigned test `ip < program.len()` is 0 <= ip /\ ip < Len(program).  *)
(*  - A token is a sequence of one-character strings, so that              *)
(*    str::parse::<i32> is computed from the characters.                   *)
(*  - Stack values are i32.  A run is followed while every value on the   *)
(*    evaluation stack is within -MaxValue..MaxValue, where sums and       *)
(*    products of two values stay far inside the i32 range, so `+` and `*` *)
(*    are exact: runs that overflow an i32 are outside the model.          *)
(***************************************************************************)
EXTENDS Integers, Sequences, FiniteSets, TLC

VARIABLES
    source,           \* the text main() parses, as split_whitespace yields it
    input,            \* the tokens `tokens` has not yielded yet
    defining,         \* parse's local: <<>> is None, <<name>> is Some(name)
    buffer,           \* parse's local: the body of the open definition
    p_main,           \* Parser.main
    p_definitions,    \* Parser.definitions
    p_dictionary,     \* Parser.dictionary
    instructions,     \* main's local: the list finalize returned
    words,            \* main's local: the dictionary finalize returned
    stack,            \* VM.stack
    program,          \* VM.program
    ip,               \* VM.ip
    return_stack,     \* VM.return_stack
    dictionary,       \* VM.dictionary
    panic,            \* "none", or the kind of the panic that ended the process
    pc                \* where main() is

vars == <<source, input, defining, buffer, p_main, p_definitions, p_dictionary,
          instructions, words, stack, program, ip, return_stack, dictionary,
          panic, pc>>

parserVars == <<source, input, defining, buffer, p_main, p_definitions, p_dictionary>>
mainVars == <<instructions, words>>
vmVars == <<stack, program, ip, return_stack, dictionary>>

----------------------------------------------------------------------------
(* i32 *)

I32Max == 2147483647
I32Min == -I32Max - 1

----------------------------------------------------------------------------
(* enum Instruction *)

Push(v) == [op |-> "Push", value |-> v]
Add == [op |-> "Add"]
Mul == [op |-> "Mul"]
Dup == [op |-> "Dup"]
Drop == [op |-> "Drop"]
Swap == [op |-> "Swap"]
Over == [op |-> "Over"]
Rot == [op |-> "Rot"]
Nip == [op |-> "Nip"]
Tuck == [op |-> "Tuck"]
TwoDup == [op |-> "TwoDup"]
TwoDrop == [op |-> "TwoDrop"]
TwoSwap == [op |-> "TwoSwap"]
Depth == [op |-> "Depth"]
Jump(offset) == [op |-> "Jump", offset |-> offset]
IfZero(offset) == [op |-> "IfZero", offset |-> offset]
Call(addr) == [op |-> "Call", addr |-> addr]
CallWord(name) == [op |-> "CallWord", name |-> name]
Return == [op |-> "Return"]
Halt == [op |-> "Halt"]

----------------------------------------------------------------------------
(* Vec and HashMap *)

\* Vec::last
Top(s) == s[Len(s)]

\* what Vec::pop leaves of a non-empty vector
Pop(s) == SubSeq(s, 1, Len(s) - 1)

\* Vec::insert(index, element), index 0-based
Insert(s, index, element) ==
    SubSeq(s, 1, index) \o <<element>> \o SubSeq(s, index + 1, Len(s))

\* HashMap::new
EmptyMap == <<>>

\* HashMap::insert
MapInsert(m, key, value) ==
    [k \in (DOMAIN m) \cup {key} |-> IF k = key THEN value ELSE m[k]]

----------------------------------------------------------------------------
(* VM::run, the stack instructions (main.rs 54-145).  Each operator takes   *)
(* the evaluation stack and gives the stack the arm leaves and the panic    *)
(* that ended it, if any.                                                   *)

Ok(s) == [stack |-> s, panic |-> "none"]
Fail(s, kind) == [stack |-> s, panic |-> kind]

ExecPush(s, value) == Ok(Append(s, value))

ExecAdd(s) ==
    IF Len(s) = 0 THEN Fail(s, "StackUnderflow")
    ELSE LET b == Top(s)
             s1 == Pop(s)
         IN  IF Len(s1) = 0 THEN Fail(s1, "StackUnderflow")
             ELSE LET a == Top(s1)
                      s2 == Pop(s1)
                  IN  Ok(Append(s2, a + b))

ExecMul(s) ==
    IF Len(s) = 0 THEN Fail(s, "StackUnderflow")
    ELSE LET b == Top(s)
             s1 == Pop(s)
         IN  IF Len(s1) = 0 THEN Fail(s1, "StackUnderflow")
             ELSE LET a == Top(s1)
                      s2 == Pop(s1)
                  IN  Ok(Append(s2, a * b))

ExecDup(s) ==
    IF Len(s) = 0 THEN Fail(s, "StackUnderflow")
    ELSE Ok(Append(s, Top(s)))

ExecDrop(s) ==
    IF Len(s) = 0 THEN Fail(s, "StackUnderflow")
    ELSE Ok(Pop(s))

ExecSwap(s) ==
    IF Len(s) = 0 THEN Fail(s, "StackUnderflow")
    ELSE LET b == Top(s)
             s1 == Pop(s)
         IN  IF Len(s1) = 0 THEN Fail(s1, "StackUnderflow")
             ELSE LET a == Top(s1)
                      s2 == Pop(s1)
                  IN  Ok(Append(Append(s2, b), a))

ExecOver(s) ==
    IF Len(s) < 2 THEN Fail(s, "StackUnderflow")
    ELSE LET val == s[(Len(s) - 2) + 1]
         IN  Ok(Append(s, val))

\* mutant: the rotation turned the other way, (a,b,c) -> (c,a,b)
ExecRotBackwards(s) ==
    IF Len(s) < 3 THEN Fail(s, "StackUnderflow")
    ELSE LET c == Top(s)
             s1 == Pop(s)
             b == Top(s1)
             s2 == Pop(s1)
             a == Top(s2)
             s3 == Pop(s2)
         IN  Ok(Append(Append(Append(s3, c), a), b))

ExecRot(s) ==
    IF Len(s) < 3 THEN Fail(s, "StackUnderflow")
    ELSE LET c == Top(s)
             s1 == Pop(s)
             b == Top(s1)
             s2 == Pop(s1)
             a == Top(s2)
             s3 == Pop(s2)
         IN  Ok(Append(Append(Append(s3, b), c), a))

ExecNip(s) ==
    IF Len(s) < 2 THEN Fail(s, "StackUnderflow")
    ELSE LET top == Top(s)
             s1 == Pop(s)
             s2 == Pop(s1)
         IN  Ok(Append(s2, top))

\* mutant: the copy is inserted one place too high, below the top only
ExecTuckBelowTop(s) ==
    IF Len(s) < 2 THEN Fail(s, "StackUnderflow")
    ELSE LET top == Top(s)
         IN  Ok(Insert(s, Len(s) - 1, top))

ExecTuck(s) ==
    IF Len(s) < 2 THEN Fail(s, "StackUnderflow")
    ELSE LET top == Top(s)
         IN  Ok(Insert(s, Len(s) - 2, top))

ExecTwoDup(s) ==
    IF Len(s) < 2 THEN Fail(s, "StackUnderflow")
    ELSE LET len == Len(s)
             s1 == Append(s, s[(len - 2) + 1])
         IN  Ok(Append(s1, s1[(len - 1) + 1]))

\* mutant: one value is enough, the second pop finding nothing
ExecTwoDropOneEnough(s) ==
    IF Len(s) < 1 THEN Fail(s, "StackUnderflow")
    ELSE Ok(Pop(Pop(s)))

ExecTwoDrop(s) ==
    IF Len(s) < 2 THEN Fail(s, "StackUnderflow")
    ELSE Ok(Pop(Pop(s)))

ExecTwoSwap(s) ==
    IF Len(s) < 4 THEN Fail(s, "StackUnderflow")
    ELSE LET d == Top(s)
             s1 == Pop(s)
             c == Top(s1)
             s2 == Pop(s1)
             b == Top(s2)
             s3 == Pop(s2)
             a == Top(s3)
             s4 == Pop(s3)
         IN  Ok(Append(Append(Append(Append(s4, c), d), a), b))

ExecDepth(s) ==
    LET depth == Len(s)
    IN  Ok(Append(s, depth))

\* the arm of a stack instruction
ExecStackOp(instr, s) ==
    CASE instr.op = "Push" -> ExecPush(s, instr.value)
      [] instr.op = "Add" -> ExecAdd(s)
      [] instr.op = "Mul" -> ExecMul(s)
      [] instr.op = "Dup" -> ExecDup(s)
      [] instr.op = "Drop" -> ExecDrop(s)
      [] instr.op = "Swap" -> ExecSwap(s)
      [] instr.op = "Over" -> ExecOver(s)
      [] instr.op = "Rot" -> ExecRot(s)
      [] instr.op = "Nip" -> ExecNip(s)
      [] instr.op = "Tuck" -> ExecTuck(s)
      [] instr.op = "TwoDup" -> ExecTwoDup(s)
      [] instr.op = "TwoDrop" -> ExecTwoDrop(s)
      [] instr.op = "TwoSwap" -> ExecTwoSwap(s)
      [] instr.op = "Depth" -> ExecDepth(s)

StackOps == {"Push", "Add", "Mul", "Dup", "Drop", "Swap", "Over", "Rot", "Nip",
             "Tuck", "TwoDup", "TwoDrop", "TwoSwap", "Depth"}

----------------------------------------------------------------------------
(* VM::run, one iteration of the loop (main.rs 52-179).  A machine m is the  *)
(* record of what an iteration can change: the two stacks, ip, the panic    *)
(* that ended the process ("none" if none) and whether run() returned.      *)

\* the test of the while loop: ip < program.len(), on usize
InProgram(vm_ip, vm_program) == 0 <= vm_ip /\ vm_ip < Len(vm_program)

\* mutant: the address of the call itself is pushed
ReturnAddressOfCall(vm_ip) == vm_ip

\* the address Call and CallWord push: self.ip + 1 (main.rs 147, 154)
ReturnAddress(vm_ip) == vm_ip + 1

\* mutant: the default increment is taken after the branch as well
BranchTargetThenIncrement(vm_ip, offset) == vm_ip + offset + 1

\* ((self.ip as isize) + offset) as usize (main.rs 166, 171)
BranchTarget(vm_ip, offset) == vm_ip + offset

\* a stack instruction, then self.ip += 1 (main.rs 54-145, 178)
ExecStack(m, instr) ==
    LET r == ExecStackOp(instr, m.stack)
    IN  IF r.panic # "none"
        THEN [m EXCEPT !.stack = r.stack, !.panic = r.panic]
        ELSE [m EXCEPT !.stack = r.stack, !.ip = m.ip + 1]

\* main.rs 146-150
ExecCall(m, addr) ==
    [m EXCEPT !.return_stack = Append(m.return_stack, ReturnAddress(m.ip)),
              !.ip = addr]

\* mutant: an unknown word calls address 0
ExecCallWordDefault(m, name, vm_dictionary) ==
    LET addr == IF name \in DOMAIN vm_dictionary THEN vm_dictionary[name] ELSE 0
    IN  [m EXCEPT !.return_stack = Append(m.return_stack, m.ip + 1),
                  !.ip = addr]

\* mutant: a known word is entered without a return address being pushed
ExecCallWordNoFrame(m, name, vm_dictionary) ==
    IF name \notin DOMAIN vm_dictionary
    THEN [m EXCEPT !.panic = "UnknownWord"]
    ELSE [m EXCEPT !.ip = vm_dictionary[name]]

\* main.rs 151-157
ExecCallWord(m, name, vm_dictionary) ==
    IF name \notin DOMAIN vm_dictionary
    THEN [m EXCEPT !.panic = "UnknownWord"]
    ELSE LET addr == vm_dictionary[name]
         IN  [m EXCEPT
                !.return_stack = Append(m.return_stack, ReturnAddress(m.ip)),
                !.ip = addr]

\* mutant: a Return with nothing to pop goes to address 0
ExecReturnDefault(m) ==
    IF Len(m.return_stack) = 0
    THEN [m EXCEPT !.ip = 0]
    ELSE [m EXCEPT !.return_stack = Pop(m.return_stack),
                   !.ip = Top(m.return_stack)]

\* main.rs 158-162
ExecReturn(m) ==
    IF Len(m.return_stack) = 0
    THEN [m EXCEPT !.panic = "ReturnStackUnderflow"]
    ELSE LET ret == Top(m.return_stack)
         IN  [m EXCEPT !.return_stack = Pop(m.return_stack), !.ip = ret]

\* mutant: the value is only looked at when the branch is not taken
ExecIfZeroPeeks(m, offset) ==
    IF Len(m.stack) = 0
    THEN [m EXCEPT !.panic = "StackUnderflow"]
    ELSE IF Top(m.stack) = 0
         THEN [m EXCEPT !.stack = Pop(m.stack), !.ip = m.ip + offset]
         ELSE [m EXCEPT !.ip = m.ip + 1]

\* main.rs 163-169, and 178 when the branch is not taken
ExecIfZero(m, offset) ==
    IF Len(m.stack) = 0
    THEN [m EXCEPT !.panic = "StackUnderflow"]
    ELSE LET cond == Top(m.stack)
         IN  IF cond = 0
             THEN [m EXCEPT !.stack = Pop(m.stack),
                            !.ip = BranchTarget(m.ip, offset)]
             ELSE [m EXCEPT !.stack = Pop(m.stack), !.ip = m.ip + 1]

\* mutant: Jump pops a value, as IfZero does
ExecJumpPops(m, offset) ==
    [m EXCEPT !.stack = IF Len(m.stack) = 0 THEN m.stack ELSE Pop(m.stack),
              !.ip = BranchTarget(m.ip, offset)]

\* main.rs 170-173
ExecJump(m, offset) == [m EXCEPT !.ip = BranchTarget(m.ip, offset)]

\* mutant: Halt takes the default increment before the loop ends
ExecHaltAdvances(m) == [m EXCEPT !.returned = TRUE, !.ip = m.ip + 1]

\* main.rs 174: break
ExecHalt(m) == [m EXCEPT !.returned = TRUE]

\* the loop test failed: run() returns (main.rs 52, 180)
ExitLoop(m) == [m EXCEPT !.returned = TRUE]

Iteration(vm_stack, vm_program, vm_ip, vm_return_stack, vm_dictionary) ==
    LET m == [stack |-> vm_stack, ip |-> vm_ip,
              return_stack |-> vm_return_stack,
              panic |-> "none", returned |-> FALSE]
        instr == vm_program[vm_ip + 1]
    IN  IF ~InProgram(vm_ip, vm_program) THEN ExitLoop(m)
        ELSE IF instr.op \in StackOps THEN ExecStack(m, instr)
        ELSE IF instr.op = "Call" THEN ExecCall(m, instr.addr)
        ELSE IF instr.op = "CallWord"
             THEN ExecCallWord(m, instr.name, vm_dictionary)
        ELSE IF instr.op = "Return" THEN ExecReturn(m)
        ELSE IF instr.op = "IfZero" THEN ExecIfZero(m, instr.offset)
        ELSE IF instr.op = "Jump" THEN ExecJump(m, instr.offset)
        ELSE ExecHalt(m)

----------------------------------------------------------------------------
(* Parser::parse *)

COLON == <<":">>
SEMI == <<";">>

DigitChars == <<"0", "1", "2", "3", "4", "5", "6", "7", "8", "9">>
IsDigit(c) == \E i \in 1..Len(DigitChars) : DigitChars[i] = c
DigitValue(c) == (CHOOSE i \in 1..Len(DigitChars) : DigitChars[i] = c) - 1

Err == [ok |-> FALSE, value |-> 0]

\* the digit loop of i32::from_str: acc is the value so far, negative when
\* the sign is '-'; a character that is no digit, or a value outside i32, is Err
RECURSIVE ParseDigits(_, _, _)
ParseDigits(chars, acc, negative) ==
    IF chars = <<>> THEN [ok |-> TRUE, value |-> acc]
    ELSE IF ~IsDigit(Head(chars)) THEN Err
    ELSE LET d == DigitValue(Head(chars))
         IN  IF ~negative
             THEN IF acc > (I32Max - d) \div 10 THEN Err
                  ELSE ParseDigits(Tail(chars), acc * 10 + d, negative)
             ELSE IF \/ acc = I32Min
                     \/ (d = 0 /\ -acc > I32Max \div 10)
                     \/ (d > 0 /\ -acc > (I32Max - (d - 1)) \div 10)
                  THEN Err
                  ELSE ParseDigits(Tail(chars), acc * 10 - d, negative)

\* word.parse::<i32>()
ParseI32(word) ==
    IF word = <<>> THEN Err
    ELSE IF Head(word) \in {"+", "-"}
         THEN IF Len(word) = 1 THEN Err
              ELSE ParseDigits(Tail(word), 0, Head(word) = "-")
         ELSE ParseDigits(word, 0, FALSE)

\* the instruction of a token that is neither ":" nor ";" (main.rs 222-235)
WordInstr(word) ==
    LET n == ParseI32(word)
    IN  IF n.ok THEN Push(n.value)
        ELSE IF word = <<"d", "u", "p">> THEN Dup
        ELSE IF word = <<"d", "r", "o", "p">> THEN Drop
        ELSE IF word = <<"s", "w", "a", "p">> THEN Swap
        ELSE IF word = <<"o", "v", "e", "r">> THEN Over
        ELSE IF word = <<"+">> THEN Add
        ELSE IF word = <<"*">> THEN Mul
        ELSE IF word = <<"d", "e", "p", "t", "h">> THEN Depth
        ELSE CallWord(word)

\* mutant: the Halt that finalize will append is not counted
WordAddrNoHalt(main, definitions) == Len(main) + Len(definitions)

\* mutant: one more than the Halt is counted
WordAddrPastHalt(main, definitions) == Len(main) + Len(definitions) + 2

\* the address `;` gives the word it closes (main.rs 214)
WordAddr(main, definitions) == Len(main) + Len(definitions) + 1

\* mutant: the buffer of the definition left open is not cleared
ParseColonKeepsBuffer ==
    /\ pc = "parse"
    /\ input # <<>>
    /\ Head(input) = COLON
    /\ IF Len(input) = 1
       THEN /\ input' = <<>>
            /\ panic' = "ExpectedWordName"
            /\ pc' = "panicked"
            /\ UNCHANGED <<defining, buffer>>
       ELSE /\ input' = Tail(Tail(input))
            /\ defining' = <<input[2]>>
            /\ UNCHANGED <<buffer, panic, pc>>
    /\ UNCHANGED <<p_main, p_definitions, p_dictionary>>
    /\ UNCHANGED <<source, mainVars, vmVars>>

\* the arm ":" (main.rs 206-210)
ParseColon ==
    /\ pc = "parse"
    /\ input # <<>>
    /\ Head(input) = COLON
    /\ IF Len(input) = 1
       THEN /\ input' = <<>>
            /\ panic' = "ExpectedWordName"
            /\ pc' = "panicked"
            /\ UNCHANGED <<defining, buffer>>
       ELSE /\ input' = Tail(Tail(input))
            /\ defining' = <<input[2]>>
            /\ buffer' = <<>>
            /\ UNCHANGED <<panic, pc>>
    /\ UNCHANGED <<p_main, p_definitions, p_dictionary>>
    /\ UNCHANGED <<source, mainVars, vmVars>>

\* mutant: a ";" outside a definition is skipped
ParseSemiSkipsStray ==
    /\ pc = "parse"
    /\ input # <<>>
    /\ Head(input) = SEMI
    /\ input' = Tail(input)
    /\ IF defining # <<>>
       THEN /\ defining' = <<>>
            /\ p_dictionary' = MapInsert(p_dictionary, defining[1],
                                         WordAddr(p_main, p_definitions))
            /\ p_definitions' = p_definitions \o Append(buffer, Return)
            /\ buffer' = <<>>
       ELSE UNCHANGED <<defining, buffer, p_definitions, p_dictionary>>
    /\ UNCHANGED <<p_main, panic, pc>>
    /\ UNCHANGED <<source, mainVars, vmVars>>

\* the arm ";" (main.rs 211-220)
ParseSemi ==
    /\ pc = "parse"
    /\ input # <<>>
    /\ Head(input) = SEMI
    /\ input' = Tail(input)
    /\ IF defining # <<>>
       THEN LET name == defining[1]
                body == Append(buffer, Return)
                addr == WordAddr(p_main, p_definitions)
            IN  /\ defining' = <<>>
                /\ p_dictionary' = MapInsert(p_dictionary, name, addr)
                /\ p_definitions' = p_definitions \o body
                /\ buffer' = <<>>
                /\ UNCHANGED <<panic, pc>>
       ELSE /\ panic' = "UnexpectedSemicolon"
            /\ pc' = "panicked"
            /\ UNCHANGED <<defining, buffer, p_definitions, p_dictionary>>
    /\ UNCHANGED p_main
    /\ UNCHANGED <<source, mainVars, vmVars>>

\* the arm of every other token (main.rs 221-242)
ParseWord ==
    /\ pc = "parse"
    /\ input # <<>>
    /\ Head(input) \notin {COLON, SEMI}
    /\ input' = Tail(input)
    /\ LET instr == WordInstr(Head(input))
       IN  IF defining # <<>>
           THEN buffer' = Append(buffer, instr) /\ UNCHANGED p_main
           ELSE p_main' = Append(p_main, instr) /\ UNCHANGED buffer
    /\ UNCHANGED <<defining, p_definitions, p_dictionary, panic, pc>>
    /\ UNCHANGED <<source, mainVars, vmVars>>

\* tokens.next() is None: parse returns (main.rs 204, 245); its locals
\* defining and buffer are dropped and keep their last values here
ParseEnd ==
    /\ pc = "parse"
    /\ input = <<>>
    /\ pc' = "finalize"
    /\ UNCHANGED <<parserVars, mainVars, vmVars, panic>>

----------------------------------------------------------------------------
(* Parser::finalize and main *)

\* mutant: the Halt appended after the definitions
FinalInstructionsHaltLast(main, definitions) == (main \o definitions) \o <<Halt>>

\* the list finalize returns (main.rs 248-250)
FinalInstructions(main, definitions) == Append(main, Halt) \o definitions

\* let (instructions, dictionary) = parser.finalize()  (main.rs 260)
Finalize ==
    /\ pc = "finalize"
    /\ instructions' = FinalInstructions(p_main, p_definitions)
    /\ words' = p_dictionary
    /\ pc' = "new"
    /\ UNCHANGED <<parserVars, vmVars, panic>>

\* VM::new(instructions)  (main.rs 37-45, 266)
NewVM ==
    /\ pc = "new"
    /\ stack' = <<>>
    /\ program' = instructions
    /\ ip' = 0
    /\ return_stack' = <<>>
    /\ dictionary' = EmptyMap
    /\ pc' = "install"
    /\ UNCHANGED <<parserVars, mainVars, panic>>

\* vm.dictionary = dictionary  (main.rs 267)
InstallDictionary ==
    /\ pc = "install"
    /\ dictionary' = words
    /\ pc' = "run"
    /\ UNCHANGED <<parserVars, mainVars, stack, program, ip, return_stack, panic>>

----------------------------------------------------------------------------
(* bounds of the model *)

MaxValue == 30        \* a run is followed while |value| <= MaxValue
MaxStackLen == 5      \* ... and the evaluation stack is no longer than this
MaxReturnLen == 3     \* ... and the return stack is no longer than this
MaxTokens == 5        \* every source of at most this many tokens is parsed
MaxPreamble == 4      \* a stack program starts by pushing 1..k, k up to this
MaxBody == 2          \* ... followed by at most this many stack instructions
MaxPush == 1          \* ... whose Push operands are 0..MaxPush
MaxControl == 3       \* every control-flow program of at most this length

AllWithin(s, bound) == \A i \in 1..Len(s) : -bound <= s[i] /\ s[i] <= bound

Followed ==
    /\ Len(stack) <= MaxStackLen
    /\ Len(return_stack) <= MaxReturnLen
    /\ AllWithin(stack, MaxValue)

\* one iteration of the loop of vm.run()  (main.rs 52-179, 268)
RunStep ==
    /\ pc = "run"
    /\ Followed
    /\ LET next == Iteration(stack, program, ip, return_stack, dictionary)
       IN  /\ stack' = next.stack
           /\ ip' = next.ip
           /\ return_stack' = next.return_stack
           /\ panic' = next.panic
           /\ pc' = IF next.panic # "none" THEN "panicked"
                    ELSE IF next.returned THEN "returned"
                    ELSE "run"
    /\ UNCHANGED <<parserVars, mainVars, program, dictionary>>

----------------------------------------------------------------------------
(* the inputs *)

\* the sequences over S of length at most n
SeqsUpTo(S, n) == UNION {[1..k -> S] : k \in 0..n}

DUP == <<"d", "u", "p">>
DROP == <<"d", "r", "o", "p">>
SWAP == <<"s", "w", "a", "p">>
OVER == <<"o", "v", "e", "r">>
PLUS == <<"+">>
STAR == <<"*">>
DEPTH == <<"d", "e", "p", "t", "h">>
SQUARE == <<"s", "q", "u", "a", "r", "e">>
QUAD == <<"q", "u", "a", "d">>
W == <<"w">>
V == <<"v">>

\* the decimal text of n, -9 <= n <= 9
Numeral(n) == IF n < 0 THEN <<"-", DigitChars[1 - n]>> ELSE <<DigitChars[n + 1]>>

\* "n square : square dup * ;", the text of main() when n = 5 (main.rs 258)
SquareSource(n) == <<Numeral(n), SQUARE, COLON, SQUARE, DUP, STAR, SEMI>>

Vocabulary == {COLON, SEMI, Numeral(2), DUP, STAR, W}

ExampleSources ==
    {SquareSource(n) : n \in -5..5} \cup
    { \* the definition first, its use after it
      <<COLON, SQUARE, DUP, STAR, SEMI, Numeral(5), SQUARE>>,
      \* a word that calls a word
      <<Numeral(2), QUAD, COLON, SQUARE, DUP, STAR, SEMI,
        COLON, QUAD, SQUARE, SQUARE, SEMI>>,
      \* main-body tokens before, between and after two definitions
      <<Numeral(1), COLON, W, DUP, SEMI, Numeral(2), COLON, V, DROP, SEMI, W>>,
      \* a word defined twice
      <<Numeral(3), W, COLON, W, DUP, SEMI, COLON, W, DUP, PLUS, SEMI>>,
      \* the other built-in words
      <<Numeral(1), Numeral(2), SWAP, DROP, DEPTH>>,
      <<Numeral(1), Numeral(2), OVER, PLUS, V, COLON, V, SWAP, SEMI>>,
      \* a ':' read while a definition is open
      <<Numeral(2), V, COLON, W, DUP, STAR, COLON, V, DROP, SEMI>>,
      \* numerals at the edge of i32, and past it
      <<<<"2", "1", "4", "7", "4", "8", "3", "6", "4", "7">>,
        <<"-", "2", "1", "4", "7", "4", "8", "3", "6", "4", "8">>,
        <<"2", "1", "4", "7", "4", "8", "3", "6", "4", "8">>>>,
      <<<<"+", "7">>, <<"-">>>> }

Sources == ExampleSources \cup SeqsUpTo(Vocabulary, MaxTokens)

Preamble(k) == [i \in 1..k |-> Push(i)]

StackAlphabet ==
    {Push(v) : v \in 0..MaxPush} \cup
    {Add, Mul, Dup, Drop, Swap, Over, Rot, Nip, Tuck, TwoDup, TwoDrop,
     TwoSwap, Depth, Halt}

StackPrograms ==
    {Preamble(k) \o body :
        k \in 0..MaxPreamble, body \in SeqsUpTo(StackAlphabet, MaxBody)}

Offsets == {-1, 0, 2}
Addrs == {0, 1, 2}

ControlAlphabet ==
    {Push(0), Push(1), CallWord(W), Return, Halt} \cup
    {Jump(o) : o \in Offsets} \cup {IfZero(o) : o \in Offsets} \cup
    {Call(a) : a \in Addrs}

ControlPrograms == SeqsUpTo(ControlAlphabet, MaxControl)

ExamplePrograms ==
    { <<Push(2), Push(3), Add, Push(4), Mul, Halt>>,
      <<Push(5), Call(3), Halt, Dup, Mul, Return>>,
      \* a call inside a called word
      <<Push(2), Call(3), Halt, Call(6), Call(6), Return, Dup, Mul, Return>>,
      <<Push(3), CallWord(W), Halt, CallWord(V), Dup, Return, Dup, Add, Return>> }

Programs == ExamplePrograms \cup StackPrograms \cup ControlPrograms

\* the dictionaries add_word builds (main.rs 47-49)
Dictionaries ==
    {EmptyMap, MapInsert(EmptyMap, W, 1), MapInsert(EmptyMap, W, 2),
     MapInsert(EmptyMap, V, 1), MapInsert(MapInsert(EmptyMap, W, 3), V, 6)}

----------------------------------------------------------------------------
(* the specifications *)

\* main(): Parser::new(), and parse about to read the first token
Init ==
    /\ source \in Sources
    /\ input = source
    /\ defining = <<>>
    /\ buffer = <<>>
    /\ p_main = <<>>
    /\ p_definitions = <<>>
    /\ p_dictionary = EmptyMap
    /\ instructions = <<>>
    /\ words = EmptyMap
    /\ stack = <<>>
    /\ program = <<>>
    /\ ip = 0
    /\ return_stack = <<>>
    /\ dictionary = EmptyMap
    /\ panic = "none"
    /\ pc = "parse"

Next ==
    \/ ParseColon
    \/ ParseSemi
    \/ ParseWord
    \/ ParseEnd
    \/ Finalize
    \/ NewVM
    \/ InstallDictionary
    \/ RunStep

Spec == Init /\ [][Next]_vars

\* a caller that builds the instruction list itself: VM::new(program), some
\* calls of add_word, and run() about to start
InitVM ==
    /\ source = <<>>
    /\ input = <<>>
    /\ defining = <<>>
    /\ buffer = <<>>
    /\ p_main = <<>>
    /\ p_definitions = <<>>
    /\ p_dictionary = EmptyMap
    /\ instructions = <<>>
    /\ words = EmptyMap
    /\ stack = <<>>
    /\ program \in Programs
    /\ ip = 0
    /\ return_stack = <<>>
    /\ dictionary \in Dictionaries
    /\ panic = "none"
    /\ pc = "run"

NextVM == RunStep

SpecVM == InitVM /\ [][NextVM]_vars

----------------------------------------------------------------------------
(* How the claims read a source text (spec sections 4.2 and 6): the tokens  *)
(* outside definitions are the main body, `: name ... ;` is a completed     *)
(* definition, a `:` inside an open definition starts it anew.              *)

Rejected == [accepted |-> FALSE, main |-> <<>>, defs |-> <<>>, open |-> <<>>]

\* main: the main-body tokens; defs: the completed definitions, in the order
\* of their `;`; open: the name of the definition left open, if any
RECURSIVE ScanSource(_, _, _, _, _)
ScanSource(toks, open, body, main, defs) ==
    IF toks = <<>>
    THEN [accepted |-> TRUE, main |-> main, defs |-> defs, open |-> open]
    ELSE IF Head(toks) = COLON
    THEN IF Len(toks) = 1 THEN Rejected
         ELSE ScanSource(Tail(Tail(toks)), <<toks[2]>>, <<>>, main, defs)
    ELSE IF Head(toks) = SEMI
    THEN IF open = <<>> THEN Rejected
         ELSE ScanSource(Tail(toks), <<>>, <<>>, main,
                         Append(defs, [name |-> open[1], body |-> body]))
    ELSE IF open = <<>>
    THEN ScanSource(Tail(toks), open, body, Append(main, Head(toks)), defs)
    ELSE ScanSource(Tail(toks), open, Append(body, Head(toks)), main, defs)

Layout(src) == ScanSource(src, <<>>, <<>>, <<>>, <<>>)

\* the index, in main ++ Halt ++ bodies, of the first instruction of the
\* k-th completed definition; every token is one instruction and every body
\* ends with one Return
RECURSIVE BodyStart(_, _)
BodyStart(layout, k) ==
    IF k = 1 THEN Len(layout.main) + 1
    ELSE BodyStart(layout, k - 1) + Len(layout.defs[k - 1].body) + 1

DefinedNames(layout) == {layout.defs[k].name : k \in 1..Len(layout.defs)}

\* the number of the most recently completed definition of name
LastDef(layout, name) ==
    CHOOSE k \in 1..Len(layout.defs) :
        /\ layout.defs[k].name = name
        /\ \A j \in (k + 1)..Len(layout.defs) : layout.defs[j].name # name

\* the instructions of tokens that are neither ":" nor ";", one for each
InstrsOf(tokens) == [i \in 1..Len(tokens) |-> WordInstr(tokens[i])]

\* finalize has returned its list to main
Finalized == instructions # <<>>

----------------------------------------------------------------------------
(* The stack effects of spec section 4.1, stated on the top of the stack:   *)
(* Under(s, k) is everything below the top k values, At(s, k) the k-th      *)
(* value from the top.                                                      *)

Under(s, k) == SubSeq(s, 1, Len(s) - k)
At(s, k) == s[Len(s) - k + 1]

\* the number of values the effect of op is stated on
RefNeeds(op) ==
    CASE op \in {"Push", "Depth"} -> 0
      [] op \in {"Dup", "Drop"} -> 1
      [] op \in {"Add", "Mul", "Swap", "Over", "Nip", "Tuck", "TwoDup",
                 "TwoDrop"} -> 2
      [] op = "Rot" -> 3
      [] op = "TwoSwap" -> 4

RefEffect(instr, s) ==
    LET a2 == At(s, 2)
        b2 == At(s, 1)
    IN  CASE instr.op = "Push" -> s \o <<instr.value>>
          [] instr.op = "Add" -> Under(s, 2) \o <<a2 + b2>>
          [] instr.op = "Mul" -> Under(s, 2) \o <<a2 * b2>>
          [] instr.op = "Dup" -> s \o <<At(s, 1)>>
          [] instr.op = "Drop" -> Under(s, 1)
          [] instr.op = "Swap" -> Under(s, 2) \o <<b2, a2>>
          [] instr.op = "Over" -> s \o <<a2>>
          [] instr.op = "Rot" -> Under(s, 3) \o <<At(s, 2), At(s, 1), At(s, 3)>>
          [] instr.op = "Nip" -> Under(s, 2) \o <<b2>>
          [] instr.op = "Tuck" -> Under(s, 2) \o <<b2, a2, b2>>
          [] instr.op = "TwoDup" -> s \o <<a2, b2>>
          [] instr.op = "TwoDrop" -> Under(s, 2)
          [] instr.op = "TwoSwap" ->
                Under(s, 4) \o <<At(s, 2), At(s, 1), At(s, 4), At(s, 3)>>
          [] instr.op = "Depth" -> s \o <<Len(s)>>

\* the effects of prog applied to s one after another, in list order, up to
\* the first Halt or the end of the list; ok is FALSE when an effect is stated
\* on more values than there are
RECURSIVE RefRun(_, _)
RefRun(prog, s) ==
    IF prog = <<>> \/ Head(prog).op = "Halt" THEN [ok |-> TRUE, stack |-> s]
    ELSE IF Len(s) < RefNeeds(Head(prog).op) THEN [ok |-> FALSE, stack |-> s]
    ELSE RefRun(Tail(prog), RefEffect(Head(prog), s))

----------------------------------------------------------------------------
(* C1 *)

\* C1: after parse() and finalize(), every name of the returned dictionary
\* maps to the index, in the returned instruction list, of the first
\* instruction of the body of that word's most recently completed definition,
\* whatever the order of main-body tokens and definitions.
C1_DictionaryResolvesEveryOrder ==
    Finalized =>
        LET layout == Layout(source)
        IN  /\ DOMAIN words = DefinedNames(layout)
            /\ \A name \in DOMAIN words :
                   words[name] = BodyStart(layout, LastDef(layout, name))

----------------------------------------------------------------------------
(* C2 *)

\* a token that refers to a word
IsRef(token) == WordInstr(token).op = "CallWord"

LatestBody(layout, name) == layout.defs[LastDef(layout, name)].body

TokensOf(tokens) == {tokens[i] : i \in 1..Len(tokens)}

\* all main-body tokens come before the first ':'
MainFirst(src, layout) ==
    \A i \in 1..Len(src) :
        (src[i] = COLON /\ \A j \in 1..(i - 1) : src[j] # COLON)
            => layout.main = SubSeq(src, 1, i - 1)

\* every referenced word is defined
AllDefined(layout) ==
    \A t \in TokensOf(layout.main) \cup
              UNION {TokensOf(layout.defs[k].body) : k \in 1..Len(layout.defs)} :
        IsRef(t) => t \in DefinedNames(layout)

\* the words a call of one of names can reach in at most n further calls
RECURSIVE Reaches(_, _, _)
Reaches(layout, names, n) ==
    LET called == UNION {{t \in TokensOf(LatestBody(layout, w)) : IsRef(t)} :
                            w \in names}
    IN  IF n = 0 THEN called
        ELSE called \cup Reaches(layout, called, n - 1)

\* no word calls itself, directly or indirectly
NoRecursion(layout) ==
    \A w \in DefinedNames(layout) :
        w \notin Reaches(layout, {w}, Cardinality(DefinedNames(layout)))

\* tokens, with each word reference replaced by that word's definition body
RECURSIVE Inlined(_, _)
Inlined(layout, tokens) ==
    IF tokens = <<>> THEN <<>>
    ELSE (IF IsRef(Head(tokens))
          THEN Inlined(layout, LatestBody(layout, Head(tokens)))
          ELSE <<Head(tokens)>>) \o Inlined(layout, Tail(tokens))

C2_Applies(src, layout) ==
    /\ layout.accepted
    /\ MainFirst(src, layout)
    /\ AllDefined(layout)
    /\ NoRecursion(layout)

\* C2: for a source whose main-body tokens all come before the first ':',
\* in which every referenced word is defined and no word calls itself,
\* parse, finalize, installing the dictionary and run end at the Halt that
\* finalize appended, with an empty return stack and the evaluation stack
\* that evaluating the main tokens with the word bodies inlined gives, unless
\* the stack underflows; calls never nest deeper than there are words.
\* "n square : square dup * ;" leaves <<n * n>>.
C2_MainFirstSourcesEvaluate ==
    LET layout == Layout(source)
    IN  /\ C2_Applies(source, layout) =>
              LET ref == RefRun(InstrsOf(Inlined(layout, layout.main)), <<>>)
              IN  /\ pc = "panicked" =>
                        panic = "StackUnderflow" /\ ~ref.ok
                  /\ pc = "returned" =>
                        /\ ref.ok
                        /\ stack = ref.stack
                        /\ return_stack = <<>>
                        /\ ip = Len(layout.main)
                        /\ program[ip + 1] = Halt
                  /\ pc = "run" =>
                        Len(return_stack) <= Cardinality(DefinedNames(layout))
        /\ \A n \in -5..5 :
              source = SquareSource(n) =>
                  /\ pc # "panicked"
                  /\ pc = "returned" => stack = <<n * n>>

\* main() as it is: "5 square : square dup * ;" has left [25]
C2_Witness ==
    /\ source = SquareSource(5)
    /\ pc = "returned"
    /\ stack = <<25>>
    /\ return_stack = <<>>

----------------------------------------------------------------------------
(* C3 *)

StackOnly(prog) ==
    \A i \in 1..Len(prog) : prog[i].op \in StackOps \cup {"Halt"}

\* C3: a program of stack instructions and Halt in which nothing underflows
\* leaves the stack that the effects of section 4.1, applied in list order to
\* the empty stack up to the first Halt or the end of the list, give, and has
\* that stack after every instruction on the way; it fails only where an
\* effect lacks its values.  [Push(2), Push(3), Add, Push(4), Mul, Halt]
\* leaves [20].
C3_StackProgramsFollowEffects ==
    /\ StackOnly(program) =>
          LET ref == RefRun(program, <<>>)
          IN  /\ pc = "returned" => ref.ok /\ stack = ref.stack
              /\ pc = "panicked" => panic = "StackUnderflow" /\ ~ref.ok
              /\ pc = "run" =>
                    LET sofar == RefRun(SubSeq(program, 1, ip), <<>>)
                    IN  sofar.ok /\ stack = sofar.stack
    /\ program = <<Push(2), Push(3), Add, Push(4), Mul, Halt>> =>
          /\ pc # "panicked"
          /\ pc = "returned" => stack = <<20>>

C3_Witness ==
    /\ program = <<Push(2), Push(3), Add, Push(4), Mul, Halt>>
    /\ pc = "returned"
    /\ stack = <<20>>

----------------------------------------------------------------------------
(* C4 - C8: one iteration of run() *)

\* run() is about to dispatch the instruction at ip
Dispatching == pc = "run" /\ 0 <= ip /\ ip < Len(program)
Current == program[ip + 1]

\* s with its last value removed
ButLast(s) == SubSeq(s, 1, Len(s) - 1)

\* t is s with some of its top values removed and nothing added
PoppedFrom(t, s) == Len(t) <= Len(s) /\ t = SubSeq(s, 1, Len(t))

\* C4: Call(address) at ip = p pushes p + 1 on the return stack and sets ip
\* to address; Return pops the top entry into ip and leaves the entries
\* below it as they are, and no other instruction touches the return stack,
\* so the Return that pops the entry of a Call resumes at p + 1 with the
\* return stack as it was before that Call, nested or not; every entry is
\* one past a call.  [Push(5), Call(3), Halt, Dup, Mul, Return] ends with
\* [25] and an empty return stack.
C4_CallAndReturnPair ==
    /\ [][ /\ (Dispatching /\ Current.op = "Call") =>
                 /\ return_stack' = return_stack \o <<ip + 1>>
                 /\ ip' = Current.addr
                 /\ stack' = stack
                 /\ pc' = "run"
           /\ (Dispatching /\ Current.op = "Return" /\ return_stack # <<>>) =>
                 /\ ip' = return_stack[Len(return_stack)]
                 /\ return_stack' = ButLast(return_stack)
                 /\ stack' = stack
                 /\ pc' = "run"
           /\ (Dispatching /\ Current.op \notin {"Call", "CallWord", "Return"})
                 => return_stack' = return_stack
         ]_vars
    /\ [](\A i \in 1..Len(return_stack) :
             /\ return_stack[i] \in 1..Len(program)
             /\ program[return_stack[i]].op \in {"Call", "CallWord"})
    /\ [](program = <<Push(5), Call(3), Halt, Dup, Mul, Return>> =>
             /\ pc # "panicked"
             /\ pc = "returned" => stack = <<25>> /\ return_stack = <<>> /\ ip = 2)
    /\ [](program = <<Push(2), Call(3), Halt, Call(6), Call(6), Return,
                      Dup, Mul, Return>> =>
             /\ pc # "panicked"
             /\ pc = "returned" => stack = <<16>> /\ return_stack = <<>> /\ ip = 2)

C4_Witness ==
    /\ program = <<Push(5), Call(3), Halt, Dup, Mul, Return>>
    /\ pc = "returned"
    /\ stack = <<25>>
    /\ return_stack = <<>>

\* the minimum the claim gives each instruction
C5_Minimum(op) ==
    CASE op \in {"Dup", "Drop"} -> 1
      [] op \in {"Add", "Mul", "Swap", "Over", "Nip", "Tuck", "TwoDup",
                 "TwoDrop"} -> 2
      [] op = "Rot" -> 3
      [] op = "TwoSwap" -> 4

C5_Instructions ==
    {"Dup", "Drop", "Add", "Mul", "Swap", "Over", "Nip", "Tuck", "TwoDup",
     "TwoDrop", "Rot", "TwoSwap"}

\* C5: each of these instructions, executed with fewer values than its
\* minimum, ends the run in a stack-underflow failure: ip does not advance,
\* nothing executes afterwards, and the stack is the old one with at most
\* some of its top values popped; with the minimum or more it does not fail.
C5_UnderflowIsFatal ==
    [][ /\ (Dispatching /\ Current.op \in C5_Instructions) =>
             IF Len(stack) < C5_Minimum(Current.op)
             THEN /\ pc' = "panicked"
                  /\ panic' = "StackUnderflow"
                  /\ ip' = ip
                  /\ return_stack' = return_stack
                  /\ PoppedFrom(stack', stack)
             ELSE /\ pc' = "run"
                  /\ panic' = "none"
        /\ pc = "panicked" => FALSE
      ]_vars

\* TwoSwap on three values has failed and left them
C5_Witness ==
    /\ program = <<Push(1), Push(2), Push(3), TwoSwap, Halt>>
    /\ pc = "panicked"
    /\ panic = "StackUnderflow"
    /\ ip = 3
    /\ stack = <<1, 2, 3>>

\* C6: CallWord(name) with name not a key of the VM's dictionary, the
\* dictionary that was never installed included, ends the run in an
\* unknown-word failure: ip goes to no address, the return stack is not
\* pushed, and nothing executes afterwards.
C6_UnknownWordIsFatal ==
    [][ /\ ( /\ Dispatching
             /\ Current.op = "CallWord"
             /\ Current.name \notin DOMAIN dictionary ) =>
                 /\ pc' = "panicked"
                 /\ panic' = "UnknownWord"
                 /\ ip' = ip
                 /\ return_stack' = return_stack
                 /\ stack' = stack
        /\ pc = "panicked" /\ panic = "UnknownWord" => FALSE
      ]_vars

\* a CallWord run on the dictionary VM::new left empty
C6_Witness ==
    /\ dictionary = EmptyMap
    /\ program = <<Push(1), CallWord(W), Halt>>
    /\ pc = "panicked"
    /\ panic = "UnknownWord"
    /\ ip = 1
    /\ return_stack = <<>>

\* C7: Return on an empty return stack ends the run in a
\* return-stack-underflow failure with ip and the evaluation stack as they
\* were; Return on a non-empty return stack does not fail and removes
\* exactly the top entry.
C7_ReturnUnderflowIsFatal ==
    [][ (Dispatching /\ Current.op = "Return") =>
            IF return_stack = <<>>
            THEN /\ pc' = "panicked"
                 /\ panic' = "ReturnStackUnderflow"
                 /\ ip' = ip
                 /\ stack' = stack
                 /\ return_stack' = <<>>
            ELSE /\ pc' = "run"
                 /\ panic' = "none"
                 /\ return_stack' = ButLast(return_stack)
                 /\ stack' = stack
      ]_vars

\* the word returned once, and the Return after it found nothing to pop
C7_Witness ==
    /\ program = <<Push(1), Call(2), Return>>
    /\ pc = "panicked"
    /\ panic = "ReturnStackUnderflow"
    /\ ip = 2
    /\ stack = <<1>>
    /\ return_stack = <<>>

\* C8: run() stops exactly when ip is not below the program length or the
\* instruction at ip is Halt; stopping leaves ip, at the index of that Halt,
\* and both stacks as they were, the return stack empty or not, and nothing
\* executes after it.
C8_RunStopsAtHaltOrEnd ==
    /\ [][ /\ pc = "run" =>
                 /\ (pc' = "returned") <=>
                        (~(0 <= ip /\ ip < Len(program)) \/ Current.op = "Halt")
                 /\ (pc' = "returned") =>
                        /\ ip' = ip
                        /\ stack' = stack
                        /\ return_stack' = return_stack
                        /\ panic' = "none"
           /\ pc = "returned" => FALSE
         ]_vars
    /\ [](pc = "returned" =>
             \/ ~(0 <= ip /\ ip < Len(program))
             \/ program[ip + 1] = Halt)

\* stopped on a Halt inside a called word
C8_Witness ==
    /\ program = <<Push(1), Call(2), Halt>>
    /\ pc = "returned"
    /\ ip = 2
    /\ stack = <<1>>
    /\ return_stack = <<2>>

----------------------------------------------------------------------------
(* C9 *)

\* the bodies of the completed definitions from the k-th on, each with its Return
RECURSIVE BodiesFrom(_, _)
BodiesFrom(defs, k) ==
    IF k > Len(defs) THEN <<>>
    ELSE (InstrsOf(defs[k].body) \o <<Return>>) \o BodiesFrom(defs, k + 1)

\* C9: the list finalize() returns is the instructions of the main-body
\* tokens in source order, then exactly one Halt, at the index equal to the
\* number of main-body instructions, then the bodies of the completed
\* definitions in the order of their ';', each ending with a Return; no token
\* read inside a definition lands in the main part and none read outside
\* lands in a body.
C9_FinalLayout ==
    Finalized =>
        LET layout == Layout(source)
        IN  /\ layout.accepted
            /\ instructions = (InstrsOf(layout.main) \o <<Halt>>)
                                  \o BodiesFrom(layout.defs, 1)
            /\ instructions[Len(layout.main) + 1] = Halt
            /\ Cardinality({i \in 1..Len(instructions) :
                               instructions[i] = Halt}) = 1

\* two completed definitions with a body, and main-body tokens before and
\* after a definition
C9_Witness ==
    /\ Finalized
    /\ source = <<Numeral(1), COLON, W, DUP, SEMI, Numeral(2),
                  COLON, V, DROP, SEMI, W>>
    /\ instructions = <<Push(1), Push(2), CallWord(W), Halt,
                        Dup, Return, Drop, Return>>

----------------------------------------------------------------------------
(* C10 *)

\* the tokens parse has read
Consumed == SubSeq(source, 1, Len(source) - Len(input))

\* parse is about to read a ";" outside every definition
StraySemicolonNext ==
    /\ pc = "parse"
    /\ input # <<>>
    /\ Head(input) = SEMI
    /\ Layout(Consumed).open = <<>>

\* C10: a ';' read while the parser is not inside a definition is a fatal
\* parse error wherever it stands; the parser records no dictionary entry and
\* moves no body for it, and nothing runs after the failure.
C10_StraySemicolonIsFatal ==
    [][ /\ StraySemicolonNext =>
             /\ pc' = "panicked"
             /\ panic' = "UnexpectedSemicolon"
             /\ p_dictionary' = p_dictionary
             /\ p_definitions' = p_definitions
             /\ p_main' = p_main
        /\ pc = "panicked" => FALSE
      ]_vars

\* the ';' right after the ';' that closed a definition
C10_Witness ==
    /\ source = <<COLON, W, DUP, SEMI, SEMI>>
    /\ input = <<>>
    /\ pc = "panicked"
    /\ panic = "UnexpectedSemicolon"
    /\ DOMAIN p_dictionary = {W}
    /\ p_definitions = <<Dup, Return>>

----------------------------------------------------------------------------
(* C11 *)

\* parse has read the whole text and returned, or failed
ParseOver == pc # "parse"

\* C11: a source that reaches its end while a definition is still open (a
\* ':' name with no matching ';') is reported as an error: parse does not
\* return normally on it, so nothing is finalized or run.
C11_UnterminatedDefinitionIsError ==
    LET layout == Layout(source)
    IN  (ParseOver /\ layout.accepted /\ layout.open # <<>>) => pc = "panicked"

----------------------------------------------------------------------------
(* C12 *)

\* run() is about to dispatch a Jump(0)
AtJumpZero == Dispatching /\ Current = Jump(0)

\* C12: once ip is at a Jump(0), ip, the evaluation stack and the return
\* stack never change again and run() neither returns nor fails; ip stays
\* inside the program.
C12_JumpZeroLoopsForever ==
    [][ AtJumpZero =>
            /\ AtJumpZero'
            /\ ip' = ip
            /\ stack' = stack
            /\ return_stack' = return_stack
            /\ panic' = "none"
            /\ 0 <= ip' /\ ip' < Len(program')
      ]_vars

\* a Jump(0) reached after a Push, with a value on the stack
C12_Witness ==
    /\ program = <<Push(1), Jump(0)>>
    /\ pc = "run"
    /\ ip = 1
    /\ stack = <<1>>
    /\ return_stack = <<>>

----------------------------------------------------------------------------
(* C13 *)

\* C13: Tuck on a stack of at least 2 values whose top two are a (second
\* from top) and b (top) leaves b, a, b as the top three values, b on top,
\* makes the stack exactly one longer and leaves every value below the
\* original pair as it was.
C13_TuckCopiesTopBelowSecond ==
    [][ (Dispatching /\ Current.op = "Tuck" /\ Len(stack) >= 2) =>
            LET n == Len(stack)
                a == stack[n - 1]
                b == stack[n]
            IN  /\ pc' = "run"
                /\ Len(stack') = n + 1
                /\ stack'[n + 1] = b
                /\ stack'[n] = a
                /\ stack'[n - 1] = b
                /\ \A i \in 1..(n - 2) : stack'[i] = stack[i]
                /\ ip' = ip + 1
      ]_vars

\* Tuck on [1, 2, 3]: the 1 below the pair stays, 3 is copied below 2
C13_Witness ==
    /\ program = <<Push(1), Push(2), Push(3), Tuck>>
    /\ pc = "run"
    /\ ip = 4
    /\ stack = <<1, 3, 2, 3>>

----------------------------------------------------------------------------
(* C14 *)

\* C14: IfZero(offset) at ip = p on a non-empty stack pops exactly one
\* value, taken or not; if the value is 0, ip becomes p + offset, otherwise
\* p + 1.  It fails, with stack underflow, exactly when the stack is empty:
\* one value is enough.
C14_IfZeroPopsOneAndBranches ==
    [][ (Dispatching /\ Current.op = "IfZero") =>
            IF stack = <<>>
            THEN /\ pc' = "panicked"
                 /\ panic' = "StackUnderflow"
            ELSE /\ pc' = "run"
                 /\ panic' = "none"
                 /\ stack' = ButLast(stack)
                 /\ return_stack' = return_stack
                 /\ ip' = IF stack[Len(stack)] = 0
                           THEN ip + Current.offset
                           ELSE ip + 1
      ]_vars

\* a single 0 was enough: the branch over the Push(1) was taken
C14_Witness ==
    /\ program = <<Push(0), IfZero(2), Push(1)>>
    /\ pc = "run"
    /\ ip = 3
    /\ stack = <<>>

----------------------------------------------------------------------------
(* C15 *)

\* every CallWord of prog names a key of dict
AllResolvable(prog, dict) ==
    \A i \in 1..Len(prog) :
        prog[i].op = "CallWord" => prog[i].name \in DOMAIN dict

\* prog with each CallWord(name) replaced by Call(dict[name])
Resolved(prog, dict) ==
    [i \in 1..Len(prog) |->
        IF prog[i].op = "CallWord" THEN Call(dict[prog[i].name]) ELSE prog[i]]

\* C15: when every CallWord name is a dictionary key, the run of the
\* program and the run of the program with each CallWord(name) replaced by
\* Call(dictionary[name]) go through the same ip, evaluation stack and
\* return stack, step for step, and end in the same way: both start from
\* ip = 0 and empty stacks, and from every state the run is in, the step the
\* replaced program takes (without any dictionary) is the step the run takes.
C15_CallWordIsCallOfItsAddress ==
    [][ (pc = "run" /\ Followed /\ AllResolvable(program, dictionary)) =>
            LET other == Iteration(stack, Resolved(program, dictionary), ip,
                                   return_stack, EmptyMap)
            IN  /\ ip' = other.ip
                /\ stack' = other.stack
                /\ return_stack' = other.return_stack
                /\ panic' = other.panic
                /\ (pc' = "returned") = other.returned
                /\ (pc' = "panicked") = (other.panic # "none")
      ]_vars

\* a word that calls a word, both through the dictionary, has run to the end
C15_Witness ==
    /\ program = <<Push(3), CallWord(W), Halt, CallWord(V), Dup, Return,
                   Dup, Add, Return>>
    /\ dictionary = MapInsert(MapInsert(EmptyMap, W, 3), V, 6)
    /\ pc = "returned"
    /\ ip = 2
    /\ stack = <<6, 6>>
    /\ return_stack = <<>>

----------------------------------------------------------------------------
(* C16 *)

\* the VM runs, or has run, the list finalize returned
RunsParsed == pc \in {"run", "returned", "panicked"} /\ program = instructions

\* the index of the Halt finalize appended: the number of main-body tokens
AppendedHalt == Len(Layout(source).main)

\* C16: for every program and dictionary that parse() and finalize()
\* produce, when run() stops by executing the Halt finalize appended the
\* return stack is empty, and the main-body instructions are executed only
\* at call depth 0.
C16_HaltFindsReturnStackEmpty ==
    (Finalized /\ RunsParsed) =>
        /\ (pc = "returned" /\ ip = AppendedHalt) => return_stack = <<>>
        /\ (pc = "run" /\ 0 <= ip /\ ip < AppendedHalt) => return_stack = <<>>

----------------------------------------------------------------------------
(* C17 *)

\* C17: for every source the parser accepts, every address of the dictionary
\* finalize() returns is at least 1 and less than the length of the returned
\* instruction list; and while that list runs with that dictionary, ip is
\* from 0 to the length of the program, and every return address too.
C17_AddressesAndIpInBounds ==
    /\ Finalized =>
          \A name \in DOMAIN words :
              1 <= words[name] /\ words[name] < Len(instructions)
    /\ (Finalized /\ RunsParsed) =>
          /\ 0 <= ip /\ ip <= Len(program)
          /\ \A i \in 1..Len(return_stack) :
                 0 <= return_stack[i] /\ return_stack[i] <= Len(program)

\* the last definition closed has an empty body, its address is the last
\* index of the list, and the run is inside it
C17_Witness ==
    /\ source = <<W, COLON, W, SEMI>>
    /\ instructions = <<CallWord(W), Halt, Return>>
    /\ words[W] = 2
    /\ pc = "run"
    /\ ip = 2
    /\ return_stack = <<1>>

----------------------------------------------------------------------------
(* C18 *)

\* the index in toks of the ':' that opened the definition open after toks,
\* 0 if none is open; the token after a ':' is a name, whatever it is
RECURSIVE OpenedAt(_, _, _)
OpenedAt(toks, i, at) ==
    IF i > Len(toks) THEN at
    ELSE IF toks[i] = COLON THEN OpenedAt(toks, i + 2, i)
    ELSE IF toks[i] = SEMI THEN OpenedAt(toks, i + 1, 0)
    ELSE OpenedAt(toks, i + 1, at)

\* parse is about to read a token, a definition being open
ReadsInDefinition == pc = "parse" /\ input # <<>> /\ OpenedAt(Consumed, 1, 0) > 0

\* the tokens read since the ':' that opened the open definition and its name
SinceOpened ==
    SubSeq(Consumed, OpenedAt(Consumed, 1, 0) + 2, Len(Consumed))

\* C18: a ':' read while a definition is open discards that definition.
\* Reading it moves nothing into the main body or the definitions and records
\* no dictionary entry; no token read inside a definition reaches the main
\* body; the definitions and the dictionary change only at a ';', which
\* appends exactly the instructions of the tokens read after the last ':'
\* and its name, then a Return, and records exactly that name.  So the final
\* list holds nothing buffered for the discarded definition, and its name
\* has an entry only if a completed definition gave it one.
C18_NestedColonDiscards ==
    /\ [][ /\ (ReadsInDefinition /\ Head(input) = COLON /\ Len(input) > 1) =>
                 /\ p_main' = p_main
                 /\ p_definitions' = p_definitions
                 /\ p_dictionary' = p_dictionary
                 /\ pc' = "parse"
           /\ ReadsInDefinition => p_main' = p_main
           /\ (ReadsInDefinition /\ Head(input) = SEMI) =>
                 LET name == Consumed[OpenedAt(Consumed, 1, 0) + 1]
                 IN  /\ p_definitions' =
                            (p_definitions \o InstrsOf(SinceOpened)) \o <<Return>>
                     /\ DOMAIN p_dictionary' = DOMAIN p_dictionary \cup {name}
                     /\ \A k \in DOMAIN p_dictionary \ {name} :
                            p_dictionary'[k] = p_dictionary[k]
           /\ (pc = "parse" /\ ~(ReadsInDefinition /\ Head(input) = SEMI)) =>
                 /\ p_definitions' = p_definitions
                 /\ p_dictionary' = p_dictionary
         ]_vars
    /\ [](Finalized =>
              /\ instructions = (p_main \o <<Halt>>) \o p_definitions
              /\ DOMAIN words = DefinedNames(Layout(source)))
    /\ [](( /\ Finalized
            /\ source = <<Numeral(2), V, COLON, W, DUP, STAR, COLON, V, DROP,
                          SEMI>> ) =>
              /\ instructions = <<Push(2), CallWord(V), Halt, Drop, Return>>
              /\ DOMAIN words = {V})

\* ": w dup *" was open when ": v" was read: neither Dup nor Mul is in the
\* list and w has no entry
C18_Witness ==
    /\ Finalized
    /\ source = <<Numeral(2), V, COLON, W, DUP, STAR, COLON, V, DROP, SEMI>>
    /\ instructions = <<Push(2), CallWord(V), Halt, Drop, Return>>
    /\ DOMAIN words = {V}

----------------------------------------------------------------------------
(* C19 *)

\* run() is about to dispatch a Jump, or an IfZero that finds 0 on top,
\* whose target ip + offset is negative or not below the program length
BranchesOut ==
    /\ Dispatching
    /\ \/ Current.op = "Jump"
       \/ Current.op = "IfZero" /\ stack # <<>> /\ stack[Len(stack)] = 0
    /\ \/ ip + Current.offset < 0
       \/ ip + Current.offset >= Len(program)

\* C19: a Jump, or a taken IfZero, whose target is negative or at least the
\* program length is fatal: the step fails, and run() never goes on with ip
\* at that target, from where it could only end as a normal completion with
\* the evaluation stack left for the caller.
C19_BranchOutOfBoundsIsFatal ==
    [][ BranchesOut => pc' = "panicked" ]_vars

----------------------------------------------------------------------------
(* C20 *)

\* C20: during run() the instruction list and the dictionary never change;
\* Jump, Call, CallWord and Return leave the evaluation stack unchanged,
\* failing or not, and every instruction other than Call, CallWord and
\* Return leaves the return stack unchanged.
C20_RunFrame ==
    [][ pc = "run" =>
            /\ program' = program
            /\ dictionary' = dictionary
            /\ (Dispatching /\ Current.op \in {"Jump", "Call", "CallWord", "Return"})
                  => stack' = stack
            /\ (Dispatching /\ Current.op \notin {"Call", "CallWord", "Return"})
                  => return_stack' = return_stack
            /\ ~Dispatching => stack' = stack /\ return_stack' = return_stack
      ]_vars

\* the backward Jump has been taken and the 1 is still on the stack
C20_Witness ==
    /\ program = <<Push(1), Jump(-1)>>
    /\ pc = "run"
    /\ ip = 0
    /\ stack = <<1>>
    /\ return_stack = <<>>

====
